---- MODULE Spec2Model ----
(***************************************************************************)
(* Model of process_reports.py, the Medical Report Translation Pipeline.   *)
(*                                                                         *)
(* Text is a sequence of one-character strings; the backquote character   *)
(* is written "BQ".  A Python value (the                                   *)
(* result of json.loads, or None) is a tagged record [t, v]:               *)
(*   t = "None"  v = <<>>                      None / JSON null            *)
(*   t = "bool"  v = <<"true">> or <<"false">>                             *)
(*   t = "num"   v = the digits                int                         *)
(*   t = "str"   v = the characters            str                         *)
(*   t = "list"  v = the sequence of elements  list                        *)
(*   t = "dict"  v = a function from keys (texts) to values   dict         *)
(***************************************************************************)
EXTENDS Naturals, Sequences, FiniteSets, TLC

----------------------------------------------------------------------------
(* Bounds of the model *)

\* the largest number of .docx files get_docx_files may find
MaxDocs == 2
\* the largest number of pages the rasterizer may return for one PDF
MaxPages == 2
\* the longest arbitrary raw string given to parse_llm_json_output
MaxRawLen == 2

----------------------------------------------------------------------------
(* Text helpers: str methods used by the source *)

RECURSIVE Repeat(_, _)
\* c * n
Repeat(c, n) ==
    IF n = 0 THEN <<>> ELSE <<c>> \o Repeat(c, n - 1)

\* characters removed by str.strip() that occur in the modelled texts
Whitespace ==
    {" ", "\n", "\t", "\r"}

RECURSIVE LStrip(_)
LStrip(s) ==
    IF s # <<>> /\ Head(s) \in Whitespace THEN LStrip(Tail(s)) ELSE s

RECURSIVE RStrip(_)
RStrip(s) ==
    IF s # <<>> /\ s[Len(s)] \in Whitespace
    THEN RStrip(SubSeq(s, 1, Len(s) - 1))
    ELSE s

\* str.strip()
Strip(s) ==
    RStrip(LStrip(s))

\* s.startswith(p)
StartsWith(s, p) ==
    Len(s) >= Len(p) /\ SubSeq(s, 1, Len(p)) = p

RECURSIVE RemoveAll(_, _)
\* s.replace(pat, ""): left-to-right, non-overlapping occurrences removed
RemoveAll(s, pat) ==
    IF Len(s) < Len(pat) THEN s
    ELSE IF StartsWith(s, pat)
         THEN RemoveAll(SubSeq(s, Len(pat) + 1, Len(s)), pat)
         ELSE <<Head(s)>> \o RemoveAll(Tail(s), pat)

RECURSIVE Contains(_, _)
\* pat in s  (substring test on str)
Contains(s, pat) ==
    IF Len(s) < Len(pat) THEN FALSE
    ELSE StartsWith(s, pat) \/ Contains(Tail(s), pat)

----------------------------------------------------------------------------
(* Python values *)

PyNone ==
    [t |-> "None", v |-> <<>>]

PyBool(b) ==
    [t |-> "bool", v |-> IF b THEN <<"true">> ELSE <<"false">>]

PyNum(digits) ==
    [t |-> "num", v |-> digits]

PyStr(chars) ==
    [t |-> "str", v |-> chars]

PyList(elems) ==
    [t |-> "list", v |-> elems]

PyDict(f) ==
    [t |-> "dict", v |-> f]

\* {}
EmptyDict ==
    PyDict(<<>>)

\* bool(x)
Truthy(x) ==
    CASE x.t = "None" -> FALSE
      [] x.t = "bool" -> x.v = <<"true">>
      [] x.t = "num"  -> x.v # <<"0">>
      [] OTHER        -> x.v # <<>>

----------------------------------------------------------------------------
(* json.loads on the JSON subset: objects, arrays, strings without escapes,  *)
(* non-negative integers, true, false, null; whitespace between tokens.      *)

\* json.decoder.WHITESPACE
JsonWS ==
    {" ", "\t", "\n", "\r"}

Digits ==
    {"0", "1", "2", "3", "4", "5", "6", "7", "8", "9"}

\* characters a strict string scan rejects (code points below 0x20)
ControlChars ==
    {"\n", "\t", "\r"}

ScanFail ==
    [ok |-> FALSE, val |-> PyNone, pos |-> 0]

ScanOk(v, p) ==
    [ok |-> TRUE, val |-> v, pos |-> p]

RECURSIVE SkipWS(_, _)
SkipWS(s, i) ==
    IF i <= Len(s) /\ s[i] \in JsonWS THEN SkipWS(s, i + 1) ELSE i

RECURSIVE ScanString(_, _, _)
\* i is the position after the opening quote; val is the bare character sequence
ScanString(s, i, acc) ==
    IF i > Len(s) THEN ScanFail
    ELSE IF s[i] = "\"" THEN ScanOk(acc, i + 1)
    ELSE IF s[i] \in ControlChars THEN ScanFail
    ELSE ScanString(s, i + 1, Append(acc, s[i]))

RECURSIVE ScanDigits(_, _, _)
ScanDigits(s, i, acc) ==
    IF i <= Len(s) /\ s[i] \in Digits
    THEN ScanDigits(s, i + 1, Append(acc, s[i]))
    ELSE ScanOk(PyNum(acc), i)

\* NUMBER_RE, integer part: 0 | [1-9][0-9]*
ScanNumber(s, i) ==
    IF s[i] = "0" THEN ScanOk(PyNum(<<"0">>), i + 1)
    ELSE ScanDigits(s, i, <<>>)

\* s[i:i+len(word)] == word
WordAt(s, i, word) ==
    i + Len(word) - 1 <= Len(s) /\ SubSeq(s, i, i + Len(word) - 1) = word

RECURSIVE ScanValue(_, _)
RECURSIVE ScanMembers(_, _, _)
RECURSIVE ScanElements(_, _, _)

\* JSONObject after the first key's position j; later duplicates of a key win
ScanMembers(s, j, acc) ==
    IF j > Len(s) \/ s[j] # "\"" THEN ScanFail
    ELSE LET k == ScanString(s, j + 1, <<>>) IN
         IF ~k.ok THEN ScanFail
         ELSE LET c == SkipWS(s, k.pos) IN
              IF c > Len(s) \/ s[c] # ":" THEN ScanFail
              ELSE LET val == ScanValue(s, SkipWS(s, c + 1)) IN
                   IF ~val.ok THEN ScanFail
                   ELSE LET acc2 == (k.val :> val.val) @@ acc
                            e    == SkipWS(s, val.pos)
                        IN  IF e > Len(s) THEN ScanFail
                            ELSE IF s[e] = "}" THEN ScanOk(PyDict(acc2), e + 1)
                            ELSE IF s[e] = ","
                                 THEN ScanMembers(s, SkipWS(s, e + 1), acc2)
                                 ELSE ScanFail

\* JSONArray from the position j of an element
ScanElements(s, j, acc) ==
    LET val == ScanValue(s, j) IN
    IF ~val.ok THEN ScanFail
    ELSE LET acc2 == Append(acc, val.val)
             e    == SkipWS(s, val.pos)
         IN  IF e > Len(s) THEN ScanFail
             ELSE IF s[e] = "]" THEN ScanOk(PyList(acc2), e + 1)
             ELSE IF s[e] = ","
                  THEN ScanElements(s, SkipWS(s, e + 1), acc2)
                  ELSE ScanFail

\* scanner.scan_once
ScanValue(s, i) ==
    IF i > Len(s) THEN ScanFail
    ELSE IF s[i] = "\""
         THEN LET r == ScanString(s, i + 1, <<>>) IN
              IF r.ok THEN ScanOk(PyStr(r.val), r.pos) ELSE ScanFail
    ELSE IF s[i] = "{"
         THEN LET j == SkipWS(s, i + 1) IN
              IF j <= Len(s) /\ s[j] = "}" THEN ScanOk(EmptyDict, j + 1)
              ELSE ScanMembers(s, j, <<>>)
    ELSE IF s[i] = "["
         THEN LET j == SkipWS(s, i + 1) IN
              IF j <= Len(s) /\ s[j] = "]" THEN ScanOk(PyList(<<>>), j + 1)
              ELSE ScanElements(s, j, <<>>)
    ELSE IF WordAt(s, i, <<"n", "u", "l", "l">>) THEN ScanOk(PyNone, i + 4)
    ELSE IF WordAt(s, i, <<"t", "r", "u", "e">>) THEN ScanOk(PyBool(TRUE), i + 4)
    ELSE IF WordAt(s, i, <<"f", "a", "l", "s", "e">>) THEN ScanOk(PyBool(FALSE), i + 5)
    ELSE IF s[i] \in Digits THEN ScanNumber(s, i)
    ELSE ScanFail

\* json.loads(s): [err |-> TRUE] stands for json.JSONDecodeError raised
json_loads(s) ==
    LET r == ScanValue(s, SkipWS(s, 1)) IN
    IF ~r.ok THEN [err |-> TRUE, val |-> PyNone]
    ELSE IF SkipWS(s, r.pos) <= Len(s) THEN [err |-> TRUE, val |-> PyNone]
    ELSE [err |-> FALSE, val |-> r.val]

----------------------------------------------------------------------------
(* Literals of the source and the sample backend answers *)

\* "captions_ru"
CaptionsKey ==
    <<"c", "a", "p", "t", "i", "o", "n", "s", "_", "r", "u">>

\* "N/A"
NotAvailable ==
    PyStr(<<"N", "/", "A">>)

\* the four scalar keys of the final report
ScalarKeys ==
    [patient_group |-> <<"p", "a", "t", "i", "e", "n", "t", "_", "g", "r", "o", "u", "p">>,
     patient_id    |-> <<"p", "a", "t", "i", "e", "n", "t", "_", "i", "d">>,
     age           |-> <<"a", "g", "e">>,
     gender        |-> <<"g", "e", "n", "d", "e", "r">>]

\* "json"
JsonWord ==
    <<"j", "s", "o", "n">>

\* the code-fence mark: three backquotes
FenceMark ==
    <<"BQ", "BQ", "BQ">>

\* "Simulated OCR text due to API failure: " followed by the text of the
\* exception, which is modelled as the one character "e"
OcrFailureText ==
    <<"S", "i", "m", "u", "l", "a", "t", "e", "d", " ", "O", "C", "R", " ",
      "t", "e", "x", "t", " ", "d", "u", "e", " ", "t", "o", " ", "A", "P",
      "I", " ", "f", "a", "i", "l", "u", "r", "e", ":", " ", "e">>

\* "\n\n"
BlankLine ==
    <<"\n", "\n">>

\* len(full_ocr_text) < 50
Threshold == 50

\* not json
NotJson ==
    <<"n", "o", "t", " ", "j", "s", "o", "n">>

\* a fenced answer: fence, json, newline, {"age":"5","captions_ru":{"l":"x","c":"y"}}, newline, fence
GoodFenced ==
    <<"BQ", "BQ", "BQ", "j", "s", "o", "n", "\n", "{", "\"", "a", "g", "e", "\"",
      ":", "\"", "5", "\"", ",", "\"", "c", "a", "p", "t", "i", "o", "n", "s",
      "_", "r", "u", "\"", ":", "{", "\"", "l", "\"", ":", "\"", "x", "\"",
      ",", "\"", "c", "\"", ":", "\"", "y", "\"", "}", "}", "\n", "BQ", "BQ", "BQ">>

\* {"captions_ru":{}}
EmptyCaptions ==
    <<"{", "\"", "c", "a", "p", "t", "i", "o", "n", "s", "_", "r", "u", "\"",
      ":", "{", "}", "}">>

\* {"age":"5"}
NoCaptions ==
    <<"{", "\"", "a", "g", "e", "\"", ":", "\"", "5", "\"", "}">>

\* 5
BareNumber ==
    <<"5">>

\* ["captions_ru"]
ListOfKey ==
    <<"[", "\"", "c", "a", "p", "t", "i", "o", "n", "s", "_", "r", "u", "\"", "]">>

\* "captions_ru", a JSON string
QuotedKey ==
    <<"\"", "c", "a", "p", "t", "i", "o", "n", "s", "_", "r", "u", "\"">>

\* {}
EmptyObject ==
    <<"{", "}">>

\* {"l":"a","c":"b"}
SameKeys ==
    <<"{", "\"", "l", "\"", ":", "\"", "a", "\"", ",", "\"", "c", "\"", ":",
      "\"", "b", "\"", "}">>

\* {"l":"a","z":"b"}
OtherKeys ==
    <<"{", "\"", "l", "\"", ":", "\"", "a", "\"", ",", "\"", "z", "\"", ":",
      "\"", "b", "\"", "}">>

\* what doc.get_page_text may add up to for one PDF: nothing, one character
\* less than the threshold, exactly the threshold, and a page of blanks
DirectTexts ==
    {<<>>, Repeat("a", Threshold - 1), Repeat("a", Threshold), Repeat(" ", Threshold)}

\* the text the vision model recognises on page p, when it recognises any
PageText(p) ==
    <<"p", CHOOSE d \in Digits : d = ToString(p)>>

\* outcomes of one POST to the backend: a requests.RequestException, a 2xx
\* JSON body without choices[0].message.content, or a body with that content
Outcome(kind, content) ==
    [kind |-> kind, content |-> content]

OcrOutcomes(p) ==
    {Outcome("request_error", <<>>), Outcome("no_content", <<>>),
     Outcome("content", <<>>), Outcome("content", PageText(p))}

\* answers of the text model to the extraction prompt
ExtractionContents ==
    {GoodFenced, EmptyCaptions, NoCaptions, NotJson, BareNumber, ListOfKey,
     QuotedKey, EmptyObject, <<>>}

\* answers of the text model to a translation prompt
TranslationContents ==
    {SameKeys, OtherKeys, NotJson, EmptyObject}

ExtractionOutcomes ==
    {Outcome("request_error", <<>>), Outcome("no_content", <<>>)}
    \cup {Outcome("content", c) : c \in ExtractionContents}

TranslationOutcomes ==
    {Outcome("request_error", <<>>), Outcome("no_content", <<>>)}
    \cup {Outcome("content", c) : c \in TranslationContents}

----------------------------------------------------------------------------
(* The functions of the source *)

\* an exception leaving a function, named by its type
Raise(exc) ==
    [t |-> "raise", v |-> <<exc>>]

\* the except clause left out: the decode error leaves the function
OnDecodeErrorRaise ==
    Raise("JSONDecodeError")

\* except json.JSONDecodeError: ... return None
OnDecodeError ==
    PyNone

\* text.replace("json", "").replace(<fence mark>, "")
StripMarkup(text) ==
    RemoveAll(RemoveAll(text, JsonWord), FenceMark)

parse_llm_json_output(text) ==
    LET r == json_loads(StripMarkup(text)) IN
    IF r.err THEN OnDecodeError ELSE r.val

\* requests.post ... response.json()["choices"][0]["message"]["content"]
call_text_llm(outcome) ==
    CASE outcome.kind = "request_error" -> PyNone
      [] outcome.kind = "no_content"    -> Raise("KeyError")
      [] OTHER                          -> PyStr(outcome.content)

ocr_image_with_vision_llm(outcome) ==
    CASE outcome.kind = "request_error" -> PyStr(OcrFailureText)
      [] outcome.kind = "no_content"    -> Raise("KeyError")
      [] OTHER                          -> PyStr(outcome.content)

\* parse_llm_json_output on each answer the modelled backend gives, computed once
Parsed ==
    [c \in ExtractionContents \cup TranslationContents |-> parse_llm_json_output(c)]

\* parse_llm_json_output(response_text) if response_text else None
ParseIfAny(response_text) ==
    IF response_text.t = "raise" THEN response_text
    ELSE IF Truthy(response_text) THEN Parsed[response_text.v]
    ELSE PyNone

\* the prompt embeds text; the result is decided by the backend's answer
extract_structured_ru_data(text, outcome) ==
    ParseIfAny(call_text_llm(outcome))

\* the prompt embeds json.dumps(captions) and the target language
translate_captions(captions, target_language, outcome) ==
    ParseIfAny(call_text_llm(outcome))

\* the comparison written as <=
NeedsOcrInclusive(text) ==
    Len(text) <= Threshold

\* len(full_ocr_text) < 50
NeedsOcr(text) ==
    Len(text) < Threshold

\* full_ocr_text += ocr_text + "\n\n", under "if ocr_text:"
AddPageText(text, ocr_text) ==
    IF ocr_text # <<>> THEN text \o ocr_text \o BlankLine ELSE text

\* a page that gave no text is sent again
RetryEmptyPage(p, ocr_text) ==
    IF ocr_text = <<>> THEN p ELSE p + 1

\* for i, image in enumerate(images): the loop takes the next image whatever
\* the OCR call returned
NextPage(p, ocr_text) ==
    p + 1

\* not full_ocr_text.strip()
NoText(text) ==
    Strip(text) = <<>>

\* not structured_data or "captions_ru" not in structured_data:
\* "skip", "pass", or the exception the membership test raises
CaptionsTest(sd) ==
    IF ~Truthy(sd) THEN "skip"
    ELSE CASE sd.t = "dict" ->
                IF CaptionsKey \in DOMAIN sd.v THEN "pass" ELSE "skip"
           [] sd.t = "list" ->
                IF \E i \in 1..Len(sd.v) :
                       sd.v[i].t = "str" /\ sd.v[i].v = CaptionsKey
                THEN "pass" ELSE "skip"
           [] sd.t = "str" ->
                IF Contains(sd.v, CaptionsKey) THEN "pass" ELSE "skip"
           [] OTHER -> "TypeError"

\* d.get(key, default) on a dict
Get(d, key, default) ==
    IF key \in DOMAIN d.v THEN d.v[key] ELSE default

\* the test left out: every translation result is taken
TranslationNeverRejected(captions) ==
    FALSE

\* not captions_en / not captions_kz
TranslationRejected(captions) ==
    ~Truthy(captions)

\* the English translation stored as the source-language captions
ReportOfTranslation(docx_file, sd, ru, en, kz) ==
    [source_file   |-> docx_file,
     patient_group |-> Get(sd, ScalarKeys.patient_group, NotAvailable),
     patient_id    |-> Get(sd, ScalarKeys.patient_id, NotAvailable),
     age           |-> Get(sd, ScalarKeys.age, NotAvailable),
     gender        |-> Get(sd, ScalarKeys.gender, NotAvailable),
     captions_ru   |-> en,
     captions_en   |-> en,
     captions_kz   |-> kz]

FinalReport(docx_file, sd, ru, en, kz) ==
    [source_file   |-> docx_file,
     patient_group |-> Get(sd, ScalarKeys.patient_group, NotAvailable),
     patient_id    |-> Get(sd, ScalarKeys.patient_id, NotAvailable),
     age           |-> Get(sd, ScalarKeys.age, NotAvailable),
     gender        |-> Get(sd, ScalarKeys.gender, NotAvailable),
     captions_ru   |-> ru,
     captions_en   |-> en,
     captions_kz   |-> kz]

\* the report put in front instead of at the end
PrependReport(reports, report) ==
    <<report>> \o reports

\* all_report_data.append(final_report)
AppendReport(reports, report) ==
    Append(reports, report)

----------------------------------------------------------------------------
(* State of main() *)

VARIABLES
    force_ocr,        \* args.force_ocr
    docx_files,       \* the list get_docx_files returned; a file is named by its number
    pc,               \* position in main()
    di,               \* index of the for loop over docx_files
    temp_pdf,         \* 0 is None, otherwise the number of the temporary file
    images,           \* the page images of the current PDF, named by page number
    page,             \* index of the for loop over images
    full_ocr_text,
    structured_data,
    captions_ru,
    captions_en,
    captions_kz,
    all_report_data,
    output_file,      \* the contents written to args.output_file, one per write
    temp_files,       \* temporary PDFs on disk
    exception,        \* type of the exception that left main(), "" if none
    status,           \* per file: "Pending", "Succeeded" or "Skipped"
    log,              \* what was done for the file of the current iteration
    p_raw,            \* argument of parse_llm_json_output, for its own specification
    p_out             \* results of the successive invocations on p_raw

args == <<force_ocr, docx_files>>

locals ==
    <<temp_pdf, images, page, full_ocr_text, structured_data, captions_ru,
      captions_en, captions_kz>>

parsing == <<p_raw, p_out>>

vars ==
    <<force_ocr, docx_files, pc, di, temp_pdf, images, page, full_ocr_text,
      structured_data, captions_ru, captions_en, captions_kz, all_report_data,
      output_file, temp_files, exception, status, log, p_raw, p_out>>

\* nothing done yet for file d
NoLog(d) ==
    [doc |-> d, converted |-> FALSE, direct |-> <<>>, raster |-> <<>>,
     ocr |-> <<>>, resolved |-> <<>>, extract |-> <<>>, translate |-> <<>>]

Init ==
    /\ force_ocr \in BOOLEAN
    /\ docx_files \in {[i \in 1..n |-> i] : n \in 0..MaxDocs}
    /\ pc = "start"
    /\ di = 0
    /\ temp_pdf = 0
    /\ images = <<>>
    /\ page = 0
    /\ full_ocr_text = <<>>
    /\ structured_data = PyNone
    /\ captions_ru = PyNone
    /\ captions_en = PyNone
    /\ captions_kz = PyNone
    /\ all_report_data = <<>>
    /\ output_file = <<>>
    /\ temp_files = {}
    /\ exception = ""
    /\ status = [d \in 1..Len(docx_files) |-> "Pending"]
    /\ log = NoLog(0)
    /\ p_raw = <<>>
    /\ p_out = <<>>

\* the for statement takes the next file, or the loop ends; the locals of
\* main() keep what the iteration left in them
LoopNext ==
    /\ di' = di + 1
    /\ pc' = IF di + 1 > Len(docx_files) THEN "finish" ELSE "convert"

\* continue: the file of this iteration is given up
Continue ==
    /\ status' = [status EXCEPT ![docx_files[di]] = "Skipped"]
    /\ LoopNext
    /\ UNCHANGED <<all_report_data, exception>>

\* an exception nothing catches leaves main()
Uncaught(exc) ==
    /\ pc' = "crashed"
    /\ exception' = exc
    /\ UNCHANGED <<di, all_report_data, status>>

\* lines 174-179
Start ==
    /\ pc = "start"
    /\ IF docx_files = <<>>
       THEN pc' = "done" /\ di' = di
       ELSE pc' = "convert" /\ di' = 1
    /\ UNCHANGED <<args, locals, all_report_data, output_file, temp_files,
                   exception, status, log, parsing>>

\* pdf_to_text is called for every file
AlwaysDirect(force) ==
    "direct"

\* if force_ocr: ... else: ... (lines 190 and 204): the forced branch goes
\* straight to pdf_to_images, the other one calls pdf_to_text first
TextStage(force) ==
    IF force THEN "rasterize" ELSE "direct"

\* lines 184-187 with convert_docx_to_pdf: the temporary file is created
\* before convert() runs, so a failed conversion leaves it behind
Convert ==
    /\ pc = "convert"
    /\ \E ok \in BOOLEAN :
         /\ temp_files' = temp_files \cup {docx_files[di]}
         /\ log' = [NoLog(docx_files[di]) EXCEPT !.converted = ok]
         /\ IF ok
            THEN /\ temp_pdf' = docx_files[di]
                 /\ pc' = TextStage(force_ocr)
                 /\ UNCHANGED <<di, images, page, full_ocr_text, structured_data,
                                captions_ru, captions_en, captions_kz,
                                all_report_data, exception, status>>
            ELSE /\ temp_pdf' = 0
                 /\ Continue
                 /\ UNCHANGED <<images, page, full_ocr_text, structured_data,
                                captions_ru, captions_en, captions_kz>>
    /\ UNCHANGED <<args, output_file, parsing>>

\* lines 205-206 with pdf_to_text (an exception in it yields "")
DirectText ==
    /\ pc = "direct"
    /\ \E text \in DirectTexts :
         /\ full_ocr_text' = text
         /\ log' = [log EXCEPT !.direct = Append(@, text)]
         /\ pc' = IF NeedsOcr(text) THEN "rasterize" ELSE "remove"
    /\ UNCHANGED <<args, di, temp_pdf, images, page, structured_data, captions_ru,
                   captions_en, captions_kz, all_report_data, output_file,
                   temp_files, exception, status, parsing>>

\* the forced branch goes on with the text main() already holds
LeftoverText(force, text) ==
    text

\* full_ocr_text = "" in the forced branch (line 198); the other branch keeps
\* the text pdf_to_text returned (line 205)
TextBeforeOcr(force, text) ==
    IF force THEN <<>> ELSE text

\* lines 191-198 and 207-213 with pdf_to_images (an exception in it yields [])
Rasterize ==
    /\ pc = "rasterize"
    /\ \E n \in 0..MaxPages :
         /\ log' = [log EXCEPT !.raster = Append(@, n)]
         /\ IF n = 0
            THEN /\ images' = <<>>
                 /\ Continue
                 /\ UNCHANGED <<temp_pdf, page, full_ocr_text, structured_data,
                                captions_ru, captions_en, captions_kz>>
            ELSE /\ images' = [i \in 1..n |-> i]
                 /\ page' = 1
                 /\ full_ocr_text' = TextBeforeOcr(force_ocr, full_ocr_text)
                 /\ pc' = "ocr"
                 /\ UNCHANGED <<di, temp_pdf, structured_data, captions_ru,
                                captions_en, captions_kz, all_report_data,
                                exception, status>>
    /\ UNCHANGED <<args, output_file, temp_files, parsing>>

\* one iteration of the loops at lines 199-203 and 214-218
OcrPage ==
    /\ pc = "ocr"
    /\ \E o \in OcrOutcomes(images[page]) :
         LET ocr_text == ocr_image_with_vision_llm(o) IN
         /\ log' = [log EXCEPT !.ocr = Append(@, [page |-> images[page],
                                                   outcome |-> o.kind,
                                                   text |-> o.content])]
         /\ IF ocr_text.t = "raise"
            THEN /\ Uncaught(ocr_text.v[1])
                 /\ UNCHANGED locals
            ELSE /\ full_ocr_text' = AddPageText(full_ocr_text, ocr_text.v)
                 /\ page' = NextPage(page, ocr_text.v)
                 /\ pc' = IF NextPage(page, ocr_text.v) > Len(images)
                          THEN "remove" ELSE "ocr"
                 /\ UNCHANGED <<di, temp_pdf, images, structured_data, captions_ru,
                                captions_en, captions_kz, all_report_data,
                                exception, status>>
    /\ UNCHANGED <<args, output_file, temp_files, parsing>>

\* lines 220-223
Remove ==
    /\ pc = "remove"
    /\ temp_files' = temp_files \ {temp_pdf}
    /\ IF NoText(full_ocr_text)
       THEN Continue /\ UNCHANGED locals
       ELSE /\ pc' = "extract"
            /\ UNCHANGED <<di, locals, all_report_data, exception, status>>
    /\ log' = [log EXCEPT !.resolved = Append(@, full_ocr_text)]
    /\ UNCHANGED <<args, output_file, parsing>>

\* lines 226-231
Extract ==
    /\ pc = "extract"
    /\ \E o \in ExtractionOutcomes :
         LET sd   == extract_structured_ru_data(full_ocr_text, o)
             test == IF sd.t = "raise" THEN sd.v[1] ELSE CaptionsTest(sd)
         IN
         /\ log' = [log EXCEPT !.extract =
                        Append(@, [text |-> full_ocr_text, outcome |-> o,
                                   result |-> sd])]
         /\ CASE test = "skip" ->
                   /\ structured_data' = sd
                   /\ Continue
                   /\ UNCHANGED <<temp_pdf, images, page, full_ocr_text,
                                  captions_ru, captions_en, captions_kz>>
              [] test = "pass" /\ sd.t = "dict" ->
                   /\ structured_data' = sd
                   /\ captions_ru' = Get(sd, CaptionsKey, EmptyDict)
                   /\ pc' = "translate_en"
                   /\ UNCHANGED <<di, temp_pdf, images, page, full_ocr_text,
                                  captions_en, captions_kz, all_report_data,
                                  exception, status>>
              [] test = "pass" /\ sd.t # "dict" ->
                   \* structured_data.get on a list or a str
                   /\ structured_data' = sd
                   /\ Uncaught("AttributeError")
                   /\ UNCHANGED <<temp_pdf, images, page, full_ocr_text,
                                  captions_ru, captions_en, captions_kz>>
              [] OTHER ->
                   /\ structured_data' = IF sd.t = "raise"
                                         THEN structured_data ELSE sd
                   /\ Uncaught(test)
                   /\ UNCHANGED <<temp_pdf, images, page, full_ocr_text,
                                  captions_ru, captions_en, captions_kz>>
    /\ UNCHANGED <<args, output_file, temp_files, parsing>>

\* lines 233-237
TranslateEn ==
    /\ pc = "translate_en"
    /\ \E o \in TranslationOutcomes :
         LET en == translate_captions(captions_ru, "English", o) IN
         /\ log' = [log EXCEPT !.translate =
                        Append(@, [lang |-> "English", captions |-> captions_ru,
                                   outcome |-> o, result |-> en])]
         /\ IF en.t = "raise"
            THEN Uncaught(en.v[1]) /\ UNCHANGED locals
            ELSE IF TranslationRejected(en)
            THEN /\ captions_en' = en
                 /\ Continue
                 /\ UNCHANGED <<temp_pdf, images, page, full_ocr_text,
                                structured_data, captions_ru, captions_kz>>
            ELSE /\ captions_en' = en
                 /\ pc' = "translate_kz"
                 /\ UNCHANGED <<di, temp_pdf, images, page, full_ocr_text,
                                structured_data, captions_ru, captions_kz,
                                all_report_data, exception, status>>
    /\ UNCHANGED <<args, output_file, temp_files, parsing>>

\* lines 239-256
TranslateKz ==
    /\ pc = "translate_kz"
    /\ \E o \in TranslationOutcomes :
         LET kz == translate_captions(captions_ru, "Kazakh", o) IN
         /\ log' = [log EXCEPT !.translate =
                        Append(@, [lang |-> "Kazakh", captions |-> captions_ru,
                                   outcome |-> o, result |-> kz])]
         /\ IF kz.t = "raise"
            THEN Uncaught(kz.v[1]) /\ UNCHANGED locals
            ELSE IF TranslationRejected(kz)
            THEN /\ captions_kz' = kz
                 /\ Continue
                 /\ UNCHANGED <<temp_pdf, images, page, full_ocr_text,
                                structured_data, captions_ru, captions_en>>
            ELSE /\ captions_kz' = kz
                 /\ UNCHANGED <<temp_pdf, images, page, full_ocr_text,
                                structured_data, captions_ru, captions_en>>
                 /\ all_report_data' =
                        AppendReport(all_report_data,
                                     FinalReport(docx_files[di], structured_data,
                                                 captions_ru, captions_en, kz))
                 /\ status' = [status EXCEPT ![docx_files[di]] = "Succeeded"]
                 /\ LoopNext
                 /\ UNCHANGED exception
    /\ UNCHANGED <<args, output_file, temp_files, parsing>>

\* lines 258-268
Finish ==
    /\ pc = "finish"
    /\ output_file' = IF all_report_data = <<>>
                      THEN output_file
                      ELSE Append(output_file, all_report_data)
    /\ pc' = "done"
    /\ UNCHANGED <<args, di, locals, all_report_data, temp_files, exception,
                   status, log, parsing>>

Next ==
    \/ Start
    \/ Convert
    \/ DirectText
    \/ Rasterize
    \/ OcrPage
    \/ Remove
    \/ Extract
    \/ TranslateEn
    \/ TranslateKz
    \/ Finish

Spec ==
    Init /\ [][Next]_vars

----------------------------------------------------------------------------
(* parse_llm_json_output alone, on arbitrary short strings and on the sample *)
(* answers                                                                    *)

\* the most invocations on one raw string
MaxParseCalls == 2

RawChars ==
    {"{", "}", "[", "]", "\"", ":", ",", "j", "s", "o", "n", "BQ", "5", "0",
     " ", "\n", "a"}

\* {"a":"json"}
JsonValued ==
    <<"{", "\"", "a", "\"", ":", "\"", "j", "s", "o", "n", "\"", "}">>

\* JSON object texts a model may answer with
ObjectTexts ==
    {SameKeys, JsonValued}

\* P wrapped in a code fence: fence mark, json, newline, P, newline, fence mark
Fenced(P) ==
    FenceMark \o JsonWord \o <<"\n">> \o P \o <<"\n">> \o FenceMark

RawStrings ==
    UNION {[1..k -> RawChars] : k \in 0..MaxRawLen}
    \cup ExtractionContents \cup TranslationContents
    \cup ObjectTexts \cup {Fenced(P) : P \in ObjectTexts}

InitParse ==
    /\ force_ocr = FALSE
    /\ docx_files = <<>>
    /\ pc = "start"
    /\ di = 0
    /\ temp_pdf = 0
    /\ images = <<>>
    /\ page = 0
    /\ full_ocr_text = <<>>
    /\ structured_data = PyNone
    /\ captions_ru = PyNone
    /\ captions_en = PyNone
    /\ captions_kz = PyNone
    /\ all_report_data = <<>>
    /\ output_file = <<>>
    /\ temp_files = {}
    /\ exception = ""
    /\ status = <<>>
    /\ log = NoLog(0)
    /\ p_raw \in RawStrings
    /\ p_out = <<>>

ParseCall ==
    /\ Len(p_out) < MaxParseCalls
    /\ p_out' = Append(p_out, parse_llm_json_output(p_raw))
    /\ UNCHANGED <<args, pc, di, locals, all_report_data, output_file,
                   temp_files, exception, status, log, p_raw>>

NextParse ==
    ParseCall

SpecParse ==
    InitParse /\ [][NextParse]_vars

----------------------------------------------------------------------------
(* Properties *)

\* the key set of a mapping; a value that is no dict has none
Keys(x) ==
    IF x.t = "dict" THEN DOMAIN x.v ELSE {}

\* the source files of the reports collected so far, in order
ReportSources ==
    [i \in 1..Len(all_report_data) |-> all_report_data[i].source_file]

\* the files whose iteration ended in Succeeded, in processing order
SucceededFiles ==
    SelectSeq(docx_files, LAMBDA d : status[d] = "Succeeded")

\* every stage of the logged file returned a usable result
EveryStageSucceeded ==
    /\ log.converted
    /\ log.resolved # <<>>
    /\ Strip(log.resolved[1]) # <<>>
    /\ log.extract # <<>>
    /\ log.extract[1].result.t = "dict"
    /\ CaptionsKey \in DOMAIN log.extract[1].result.v
    /\ Len(log.translate) = 2
    /\ \A i \in 1..2 : /\ log.translate[i].result.t # "raise"
                       /\ Truthy(log.translate[i].result)

\* the iteration of the logged file has ended
LoggedFileEnded ==
    log.doc # 0 /\ status[log.doc] # "Pending"

C2_NoExceptionEscapes ==
    /\ pc # "crashed"
    /\ exception = ""
    /\ pc = "done" => \A d \in DOMAIN status : status[d] # "Pending"

\* C3: OCR not forced and the direct text at least Threshold long: no page
\* is rasterized, no OCR request is made, and the text handed to the
\* extractor is the direct text.
C3_NoOcrAtOrAboveThreshold ==
    (~force_ocr /\ log.direct # <<>> /\ Len(log.direct[1]) >= Threshold) =>
        /\ log.raster = <<>>
        /\ log.ocr = <<>>
        /\ \A i \in 1..Len(log.extract) : log.extract[i].text = log.direct[1]

\* a direct text of at least Threshold characters was handed to the extractor
C3_Witness ==
    /\ ~force_ocr
    /\ log.direct # <<>>
    /\ Len(log.direct[1]) >= Threshold
    /\ log.extract # <<>>
    /\ log.extract[1].text = log.direct[1]

RECURSIVE OcrConcat(_)
\* the recognised page texts in the order of the calls, each followed by a
\* blank line
OcrConcat(calls) ==
    IF calls = <<>> THEN <<>>
    ELSE (IF Head(calls).text # <<>>
          THEN Head(calls).text \o BlankLine ELSE <<>>)
         \o OcrConcat(Tail(calls))

\* C4: OCR not forced and the direct text shorter than Threshold: every
\* rasterized page is sent to OCR once, in page order, and the text handed to
\* the extractor is the page results joined by blank lines, with nothing of
\* the direct text in it.
C4_FallbackTextIsOcrOnly ==
    (~force_ocr /\ log.direct # <<>> /\ Len(log.direct[1]) < Threshold
        /\ log.extract # <<>>) =>
        /\ log.raster # <<>>
        /\ [i \in 1..Len(log.ocr) |-> log.ocr[i].page]
               = [i \in 1..log.raster[1] |-> i]
        /\ (\A i \in 1..Len(log.ocr) : log.ocr[i].outcome = "content") =>
               log.extract[1].text = OcrConcat(log.ocr)

\* C5: a page whose OCR request failed contributes nothing to the text handed
\* to the extractor, and a file all of whose OCR requests failed gets no
\* extraction request.
C5_FailedPagesContributeNothing ==
    /\ \A i \in 1..Len(log.extract) :
           ~Contains(log.extract[i].text, OcrFailureText)
    /\ (log.ocr # <<>>
          /\ \A i \in 1..Len(log.ocr) : log.ocr[i].outcome = "request_error") =>
           log.extract = <<>>

\* the rasterizer gave no page image for the logged file
NoImages ==
    log.raster # <<>> /\ log.raster[Len(log.raster)] = 0

\* every page of the logged file was sent to OCR and every answer was empty
EveryOcrEmpty ==
    /\ log.raster # <<>>
    /\ log.raster[1] > 0
    /\ Len(log.ocr) = log.raster[1]
    /\ \A i \in 1..Len(log.ocr) :
           log.ocr[i].outcome = "content" /\ log.ocr[i].text = <<>>

\* C6: no page images on the OCR path, or every OCR call empty: the file is
\* Skipped, no extraction or translation request is made for it and it has no
\* report.
C6_NoOcrTextMeansSkipped ==
    (NoImages \/ EveryOcrEmpty) =>
        /\ log.extract = <<>>
        /\ log.translate = <<>>
        /\ pc # "remove" => status[log.doc] = "Skipped"
        /\ \A i \in 1..Len(all_report_data) :
               all_report_data[i].source_file # log.doc

\* C7: in every report, captions_en and captions_kz have exactly the keys of
\* captions_ru.
C7_TranslationsKeepKeySet ==
    \A i \in 1..Len(all_report_data) :
        /\ Keys(all_report_data[i].captions_en) = Keys(all_report_data[i].captions_ru)
        /\ Keys(all_report_data[i].captions_kz) = Keys(all_report_data[i].captions_ru)

\* C8: no translation request is made with captions that are missing or
\* empty, and every report has a non-empty captions_ru mapping.
C8_CaptionsPresentAndNonEmpty ==
    /\ \A i \in 1..Len(log.translate) : Keys(log.translate[i].captions) # {}
    /\ \A i \in 1..Len(all_report_data) :
           Keys(all_report_data[i].captions_ru) # {}

\* C9: the output file is written iff some file reached Succeeded: at most
\* one write, made only when every file is Succeeded or Skipped, holding the
\* whole collection.
C9_WrittenIffSomeSucceeded ==
    /\ Len(output_file) <= 1
    /\ output_file # <<>> =>
           /\ pc = "done"
           /\ output_file[1] = all_report_data
           /\ \A d \in DOMAIN status : status[d] # "Pending"
    /\ pc \in {"done", "crashed"} =>
           (output_file # <<>> <=> \E d \in DOMAIN status : status[d] = "Succeeded")

StaysSkipped ==
    /\ log.doc # 0
    /\ status[log.doc] = "Skipped"
    /\ log'.doc = log.doc

\* the requests logged for the current file follow the order of the stages
StagesInOrder ==
    /\ (log.direct # <<>> \/ log.raster # <<>> \/ log.ocr # <<>>) => log.converted
    /\ log.resolved # <<>> => log.converted
    /\ log.extract # <<>> =>
           /\ log.resolved # <<>>
           /\ Strip(log.resolved[1]) # <<>>
    /\ log.translate # <<>> =>
           /\ log.extract # <<>>
           /\ log.extract[1].result.t = "dict"
           /\ CaptionsKey \in DOMAIN log.extract[1].result.v
           /\ log.translate[1].lang = "English"
    /\ Len(log.translate) >= 2 =>
           /\ log.translate[2].lang = "Kazakh"
           /\ log.translate[1].result.t # "raise"
           /\ Truthy(log.translate[1].result)
    /\ \A i \in 1..Len(all_report_data) :
           all_report_data[i].source_file = log.doc =>
               status[log.doc] = "Succeeded" /\ EveryStageSucceeded

C12_OnlyFencingStripped ==
    \A P \in ObjectTexts :
        (p_raw \in {P, Fenced(P)} /\ p_out # <<>>) =>
            /\ ~json_loads(P).err
            /\ p_out[1] = json_loads(P).val


\* C13: nothing is retried: per file at most one OCR request per rasterized
\* page, at most one extraction request and at most one translation request
\* per target language, whatever the earlier answers were.
C13_NothingRetried ==
    /\ \A i, j \in 1..Len(log.ocr) : log.ocr[i].page = log.ocr[j].page => i = j
    /\ log.raster = <<>> => log.ocr = <<>>
    /\ log.raster # <<>> => Len(log.ocr) <= log.raster[Len(log.raster)]
    /\ Len(log.extract) <= 1
    /\ \A i, j \in 1..Len(log.translate) :
           log.translate[i].lang = log.translate[j].lang => i = j

\* a file with a failed OCR request and an unparseable extraction answer
\* ended Skipped after one request per page and one extraction request
C13_Witness ==
    /\ log.doc # 0
    /\ status[log.doc] = "Skipped"
    /\ Len(log.ocr) = 2
    /\ \E i \in 1..2 : log.ocr[i].outcome = "request_error"
    /\ Len(log.extract) = 1
    /\ log.extract[1].result.t = "None"


\* what ocr_image_with_vision_llm returned for each logged request, each
\* non-empty return followed by a blank line, in the order of the requests
RECURSIVE PageResults(_)
PageResults(calls) ==
    IF calls = <<>> THEN <<>>
    ELSE LET r == ocr_image_with_vision_llm(
                      Outcome(Head(calls).outcome, Head(calls).text))
         IN  (IF r.t = "str" /\ r.v # <<>> THEN r.v \o BlankLine ELSE <<>>)
             \o PageResults(Tail(calls))

\* C14: with OCR forced, pdf_to_text is never called for any file, the pages
\* are sent to OCR in page order, and the text being resolved, the resolved
\* text and the text handed to the extractor are the page results in that
\* order and nothing else.
C14_ForcedOcrSkipsDirectText ==
    force_ocr =>
        /\ log.direct = <<>>
        /\ [i \in 1..Len(log.ocr) |-> log.ocr[i].page]
               = [i \in 1..Len(log.ocr) |-> i]
        /\ pc = "ocr" => full_ocr_text = PageResults(log.ocr)
        /\ log.resolved # <<>> =>
               /\ Len(log.ocr) = log.raster[1]
               /\ log.resolved[1] = PageResults(log.ocr)
        /\ log.extract # <<>> => log.extract[1].text = PageResults(log.ocr)

\* a forced-OCR file of two pages, both with text, got its extraction request
C14_Witness ==
    /\ force_ocr
    /\ Len(log.ocr) = 2
    /\ \A i \in 1..2 : log.ocr[i].outcome = "content" /\ log.ocr[i].text # <<>>
    /\ log.extract # <<>>


\* the reports lines 233-254 would make for one file with the two translation
\* blocks exchanged (Kazakh requested first), given the extraction result and
\* the backend's answer for each language: none or one
ReportKzFirst(doc, sd, oE, oK) ==
    LET ru == Get(sd, CaptionsKey, EmptyDict)
        kz == translate_captions(ru, "Kazakh", oK)
        en == translate_captions(ru, "English", oE)
    IN  IF kz.t = "raise" \/ TranslationRejected(kz) THEN <<>>
        ELSE IF en.t = "raise" \/ TranslationRejected(en) THEN <<>>
        ELSE <<FinalReport(doc, sd, ru, en, kz)>>

\* the reports made so far for the logged file
ReportsOfLogged ==
    SelectSeq(all_report_data, LAMBDA r : r.source_file = log.doc)

\* C15: every translation request of a file embeds the captions_ru of the
\* extraction result (never a translation), the report's captions_ru is that
\* mapping, and with the same backend answer per language the loop body with
\* Kazakh requested before English would make the same report, or none alike.
C15_TranslationsIndependent ==
    log.translate # <<>> =>
        LET sd == log.extract[1].result
            t  == log.translate
        IN
        /\ sd.t = "dict" /\ CaptionsKey \in DOMAIN sd.v
        /\ \A i \in 1..Len(t) : t[i].captions = sd.v[CaptionsKey]
        /\ \A i \in 1..Len(ReportsOfLogged) :
               ReportsOfLogged[i].captions_ru = sd.v[CaptionsKey]
        /\ Len(t) = 2 =>
               ReportsOfLogged
                   = ReportKzFirst(log.doc, sd, t[1].outcome, t[2].outcome)
        /\ (Len(t) = 1 /\ pc # "translate_kz") =>
               /\ ReportsOfLogged = <<>>
               /\ \A oK \in TranslationOutcomes :
                      ReportKzFirst(log.doc, sd, t[1].outcome, oK) = <<>>

\* a report was made from two translations that differ from each other and
\* from the source captions
C15_Witness ==
    /\ Len(log.translate) = 2
    /\ Len(ReportsOfLogged) = 1
    /\ log.translate[1].result # log.translate[2].result
    /\ log.translate[1].result # log.translate[1].captions


\* the text the logged file's own direct text and page results make
OwnText ==
    (IF log.direct = <<>> THEN <<>> ELSE log.direct[1]) \o PageResults(log.ocr)

\* the terminal state and the reports that the logged file's own outcomes
\* (conversion, direct text, page count, OCR answers, model answers) give,
\* computed from the log alone; "Missing" when a due request was not logged
OwnOutcome ==
    LET skipped == [status |-> "Skipped", reports |-> <<>>]
        missing == [status |-> "Missing", reports |-> <<>>]
        needs   == force_ocr \/ (log.direct # <<>> /\ NeedsOcr(log.direct[1]))
    IN
    IF ~log.converted THEN skipped
    ELSE IF ~force_ocr /\ log.direct = <<>> THEN missing
    ELSE IF needs /\ log.raster = <<>> THEN missing
    ELSE IF needs /\ log.raster[1] = 0 THEN skipped
    ELSE IF needs /\ Len(log.ocr) # log.raster[1] THEN missing
    ELSE IF NoText(OwnText) THEN skipped
    ELSE IF log.extract = <<>> THEN missing
    ELSE LET sd == extract_structured_ru_data(OwnText, log.extract[1].outcome)
         IN
         IF sd.t = "raise" THEN missing
         ELSE IF CaptionsTest(sd) # "pass" \/ sd.t # "dict" THEN skipped
         ELSE IF log.translate = <<>> THEN missing
         ELSE LET ru == Get(sd, CaptionsKey, EmptyDict)
                  en == translate_captions(ru, "English",
                                           log.translate[1].outcome)
              IN
              IF en.t = "raise" THEN missing
              ELSE IF TranslationRejected(en) THEN skipped
              ELSE IF Len(log.translate) < 2 THEN missing
              ELSE LET kz == translate_captions(ru, "Kazakh",
                                                log.translate[2].outcome)
                   IN
                   IF kz.t = "raise" THEN missing
                   ELSE IF TranslationRejected(kz) THEN skipped
                   ELSE [status  |-> "Succeeded",
                         reports |-> <<FinalReport(log.doc, sd, ru, en, kz)>>]

\* the logged file's terminal state, report and extractor input are those its
\* own outcomes give
OwnOutcomesDecide ==
    LoggedFileEnded =>
        /\ status[log.doc] = OwnOutcome.status
        /\ ReportsOfLogged = OwnOutcome.reports
        /\ log.extract # <<>> => log.extract[1].text = OwnText

\* the reports collected so far stay as they are, in place
ReportsKept ==
    /\ Len(all_report_data') >= Len(all_report_data)
    /\ SubSeq(all_report_data', 1, Len(all_report_data)) = all_report_data

\* a terminal state, once given, stays
TerminalKept ==
    \A d \in DOMAIN status : status[d] # "Pending" => status'[d] = status[d]

\* C16: with the locals of main() kept from one file to the next, a file's
\* terminal state and report are decided by its own stage outcomes alone,
\* whatever earlier files left behind, and a step never changes or removes a
\* report already collected nor an earlier file's terminal state.
C16_NoStateSharedAcrossFiles ==
    /\ []OwnOutcomesDecide
    /\ [][ReportsKept /\ TerminalKept]_vars

\* the second file succeeded after a first file that succeeded with other
\* translations, which main() still held when the second file began
C16_Witness ==
    /\ log.doc = 2
    /\ Len(all_report_data) = 2
    /\ all_report_data[1].captions_en # all_report_data[2].captions_en
    /\ all_report_data[1].captions_kz # all_report_data[2].captions_kz


\* C17: once the iteration of a file whose conversion succeeded has ended
\* (Succeeded or Skipped), its temporary PDF is gone, on every path.
C17_TempPdfRemoved ==
    (LoggedFileEnded /\ log.converted) => log.doc \notin temp_files

====
